---- MODULE Spec2Model ----
(***************************************************************************)
(* A model of manage_ext.py, the extension module of the go-basic plainbox *)
(* provider: the subcommand registry decorator (manage_py_extension), the  *)
(* build and clean subcommands (BuildCommand, CleanCommand) and the        *)
(* install override that copies executables (InstallCommandExt).           *)
(*                                                                         *)
(* Strings the code inspects (command lines, file names) are sequences of  *)
(* one-character strings, so that shlex.split and str.endswith are         *)
(* computed rather than assumed.                                           *)
(***************************************************************************)
EXTENDS Integers, Sequences, FiniteSets, TLC

VARIABLES
    \* ---- build / clean ----
    keywords,     \* the kwargs of setup(): a function from keyword to command line
    fs,           \* the directories that exist under definition.location
    invokedCmd,   \* "none", "build" or "clean": the subcommand that ran last
    ns_dry_run,   \* ns.dry_run of that invocation
    fsBefore,     \* fs when that invocation started
    stdout,       \* what that invocation printed
    spawned,      \* the subprocess.call()s that invocation made
    childExit,    \* the exit code subprocess.call() returned (-1: no child)
    retval,       \* what invoked() returned (or that it raised)
    \* ---- manage_py_extension ----
    cmd_list,     \* ProviderManagerTool._SUB_COMMANDS
    reg_prev,     \* cmd_list before the last registration
    reg_cls,      \* the class last passed to manage_py_extension
    reg_result,   \* "none", "returned" or "ValueError"
    \* ---- install ----
    build_bin,    \* <location>/build/bin: whether it exists, and os.listdir() of it
    dst,          \* ns.root + dest_map['bin']: absent, a file or a directory
    dst_before,   \* dst when the last install started
    dst_first,    \* dst after the first run of _install_src_executables
    exec_runs,    \* how many times _install_src_executables has run
    inst_runs,    \* how many times `manage.py install` has run
    inst_log,     \* what the last install did, in order
    inst_result   \* what InstallCommandExt.invoked returned (or that it raised)

cmdVars == <<keywords, fs, invokedCmd, ns_dry_run, fsBefore, stdout, spawned,
             childExit, retval>>
regVars == <<cmd_list, reg_prev, reg_cls, reg_result>>
instVars == <<build_bin, dst, dst_before, dst_first, exec_runs, inst_runs,
              inst_log, inst_result>>
vars == <<cmdVars, regVars, instVars>>

(***************************************************************************)
(* Bounds                                                                  *)
(***************************************************************************)
\* child processes exit with a code in 0..MaxExit (and `exit 7` with 7)
MaxExit == 2
\* registrations stop once the subcommand list holds MaxList classes
MaxList == 5
\* `manage.py install` is run at most MaxRuns times
MaxRuns == 2

(***************************************************************************)
(* Command lines                                                           *)
(***************************************************************************)
MakeSrc       == <<"m","a","k","e"," ","-","C"," ","s","r","c">>
MakeSrcClean  == <<"m","a","k","e"," ","-","C"," ","s","r","c"," ","c","l","e","a","n">>
MakeSrcSpaced == <<"m","a","k","e"," "," ","-","C"," "," ","s","r","c">>
MakeSrcQuoted == <<"'","m","a","k","e","'"," ","-","C"," ","s","r","c">>
MakeSrcCleanDq == <<"m","a","k","e"," ","-","C"," ","\"","s","r","c","\""," ","c","l","e","a","n">>
MakeSrcN      == <<"m","a","k","e"," ","-","C"," ","s","r","c"," ","-","n">>
Exit7         == <<"e","x","i","t"," ","7">>
\* clean_cmd of manage.py
RmBuildBin    == <<"r","m"," ","-","r","f"," ","b","u","i","l","d","/","b","i","n">>
TrueComment   == <<"t","r","u","e"," ","#"," ","d","o","n","'","t">>
MakeBackslash == <<"m","a","k","e"," ","-","C"," ","s","r","c","\\">>
EmptyCmd      == <<>>

Commands == {MakeSrc, MakeSrcClean, MakeSrcSpaced, MakeSrcQuoted, MakeSrcCleanDq,
             MakeSrcN, Exit7, RmBuildBin, TrueComment, MakeBackslash, EmptyCmd}

Tok_make  == <<"m","a","k","e">>
Tok_C     == <<"-","C">>
Tok_src   == <<"s","r","c">>
Tok_clean == <<"c","l","e","a","n">>
Tok_n     == <<"-","n">>

(***************************************************************************)
(* shlex.split(s): POSIX mode, whitespace_split, no comment characters.    *)
(* The result is [ok, tokens]; ok = FALSE stands for the ValueError shlex  *)
(* raises at the end of input inside a quotation or after an escape.       *)
(***************************************************************************)
Whitespace == {" ", "\t", "\r", "\n"}
Quotes     == {"'", "\""}
EscapeCh   == "\\"

RECURSIVE shlex_read(_, _, _, _, _, _, _)
shlex_read(s, i, state, escapedstate, token, quoted, out) ==
    IF i > Len(s)
    THEN IF state \in Quotes \/ state = "escape"
         THEN [ok |-> FALSE, tokens |-> <<>>]
         ELSE [ok |-> TRUE,
               tokens |-> IF token # <<>> \/ quoted THEN Append(out, token) ELSE out]
    ELSE LET ch == s[i] IN
         CASE state = "ws" ->
                IF ch \in Whitespace
                THEN shlex_read(s, i + 1, "ws", escapedstate, token, quoted, out)
                ELSE IF ch = EscapeCh
                THEN shlex_read(s, i + 1, "escape", "word", token, quoted, out)
                ELSE IF ch \in Quotes
                THEN shlex_read(s, i + 1, ch, escapedstate, token, quoted, out)
                ELSE shlex_read(s, i + 1, "word", escapedstate, <<ch>>, quoted, out)
           [] state \in Quotes ->
                IF ch = state
                THEN shlex_read(s, i + 1, "word", escapedstate, token, TRUE, out)
                ELSE IF ch = EscapeCh /\ state = "\""
                THEN shlex_read(s, i + 1, "escape", state, token, TRUE, out)
                ELSE shlex_read(s, i + 1, state, escapedstate, Append(token, ch), TRUE, out)
           [] state = "escape" ->
                LET keep == escapedstate \in Quotes /\ ch # EscapeCh /\ ch # escapedstate
                    tok  == IF keep THEN Append(Append(token, EscapeCh), ch)
                                    ELSE Append(token, ch)
                IN shlex_read(s, i + 1, escapedstate, escapedstate, tok, quoted, out)
           [] OTHER -> \* state = "word"
                IF ch \in Whitespace
                THEN shlex_read(s, i + 1, "ws", escapedstate, <<>>, FALSE,
                                IF token # <<>> \/ quoted THEN Append(out, token) ELSE out)
                ELSE IF ch \in Quotes
                THEN shlex_read(s, i + 1, ch, escapedstate, token, quoted, out)
                ELSE IF ch = EscapeCh
                THEN shlex_read(s, i + 1, "escape", "word", token, quoted, out)
                ELSE shlex_read(s, i + 1, "word", escapedstate, Append(token, ch), quoted, out)

shlex_split(s) == shlex_read(s, 1, "ws", "word", <<>>, FALSE, <<>>)

(***************************************************************************)
(* Values                                                                  *)
(***************************************************************************)
\* what invoked() hands back: None, an int, or an exception that propagates
RetNone       == [kind |-> "None", code |-> 0]
RetInt(n)     == [kind |-> "int", code |-> n]
RetRaise      == [kind |-> "raise", code |-> 0]

\* install has not run; the destination when no install is modelled
NotRun        == [kind |-> "none", code |-> 0]
NoDst         == [kind |-> "absent", creatable |-> TRUE, data |-> <<>>, mode_w |-> TRUE,
                  files |-> <<>>]

\* lines written by print()
MsgLine(t)    == [line |-> "msg", msg |-> t, text |-> <<>>]
CmdLine(c)    == [line |-> "cmd", msg |-> "", text |-> c]

\* subprocess.call() arguments
NoCall        == [call |-> "none", shell |-> FALSE, argv |-> <<>>, cmdline |-> <<>>]
ArgvCall(a)   == [call |-> "argv", shell |-> FALSE, argv |-> a, cmdline |-> <<>>]
ShellCall(c)  == [call |-> "shell", shell |-> TRUE, argv |-> <<>>, cmdline |-> c]

\* the exit status of manage.py: setup() raises SystemExit(<what main() returned>)
ExitStatus(r) == IF r.kind = "int" THEN r.code ELSE IF r.kind = "None" THEN 0 ELSE 1

Paths == {"src", "build/bin", "build/obj"}
src_dir == "src"

ExitCodes == 0..MaxExit

Range(q) == {q[k] : k \in DOMAIN q}

\* subprocess.call(): a shell command may do anything to the tree and exit with
\* any code, except that `exit 7` exits with 7 and that the empty command and
\* `true` exit with 0, all three leaving the tree alone; make run with -n
\* prints its recipes only
ChildOutcomes(c, tree) ==
    CASE c.call = "none"  -> {[fs |-> tree, code |-> -1]}
      [] c.call = "argv" /\ Tok_n \in Range(c.argv) ->
            {[fs |-> tree, code |-> e] : e \in ExitCodes}
      [] c.call = "shell" /\ c.cmdline = Exit7 ->
            {[fs |-> tree, code |-> 7]}
      [] c.call = "shell" /\ c.cmdline \in {EmptyCmd, TrueComment} ->
            {[fs |-> tree, code |-> 0]}
      [] OTHER ->
            {[fs |-> t, code |-> e] : t \in SUBSET Paths, e \in ExitCodes}

(***************************************************************************)
(* BuildCommand and CleanCommand                                           *)
(***************************************************************************)
\* self._keywords.get(k) is None
IsNone(kw, k) == k \notin DOMAIN kw

\* BuildCommand.invoked with the `return 1` of an unset build_cmd returning nothing
BuildCommand_result_noReturn(kw, src_isdir, dry_run) ==
    IF IsNone(kw, "build_cmd")
    THEN [ret |-> RetNone,
          out |-> <<MsgLine("This provider doesn't define build_cmd."),
                    MsgLine("Add it to manage.py and try again")>>,
          call |-> NoCall]
    ELSE IF ~src_isdir
    THEN [ret |-> RetInt(1),
          out |-> <<MsgLine("The src/ directory doesn't exist")>>,
          call |-> NoCall]
    ELSE IF dry_run
    THEN LET split == shlex_split(kw["build_cmd"]) IN
         IF ~split.ok
         THEN [ret |-> RetRaise, out |-> <<>>, call |-> NoCall]
         ELSE IF split.tokens = <<Tok_make, Tok_C, Tok_src>>
         THEN [ret |-> RetNone, out |-> <<>>,
               call |-> ArgvCall(<<Tok_make, Tok_C, Tok_src, Tok_n>>)]
         ELSE [ret |-> RetNone, out |-> <<CmdLine(kw["build_cmd"])>>, call |-> NoCall]
    ELSE [ret |-> RetNone, out |-> <<>>, call |-> ShellCall(kw["build_cmd"])]

\* BuildCommand.invoked with the os.path.isdir() test of src/ left out
BuildCommand_result_noSrcCheck(kw, src_isdir, dry_run) ==
    IF IsNone(kw, "build_cmd")
    THEN [ret |-> RetInt(1),
          out |-> <<MsgLine("This provider doesn't define build_cmd."),
                    MsgLine("Add it to manage.py and try again")>>,
          call |-> NoCall]
    ELSE IF FALSE
    THEN [ret |-> RetInt(1),
          out |-> <<MsgLine("The src/ directory doesn't exist")>>,
          call |-> NoCall]
    ELSE IF dry_run
    THEN LET split == shlex_split(kw["build_cmd"]) IN
         IF ~split.ok
         THEN [ret |-> RetRaise, out |-> <<>>, call |-> NoCall]
         ELSE IF split.tokens = <<Tok_make, Tok_C, Tok_src>>
         THEN [ret |-> RetNone, out |-> <<>>,
               call |-> ArgvCall(<<Tok_make, Tok_C, Tok_src, Tok_n>>)]
         ELSE [ret |-> RetNone, out |-> <<CmdLine(kw["build_cmd"])>>, call |-> NoCall]
    ELSE [ret |-> RetNone, out |-> <<>>, call |-> ShellCall(kw["build_cmd"])]

\* BuildCommand.invoked running make without -n in a dry run
BuildCommand_result_noDashN(kw, src_isdir, dry_run) ==
    IF IsNone(kw, "build_cmd")
    THEN [ret |-> RetInt(1),
          out |-> <<MsgLine("This provider doesn't define build_cmd."),
                    MsgLine("Add it to manage.py and try again")>>,
          call |-> NoCall]
    ELSE IF ~src_isdir
    THEN [ret |-> RetInt(1),
          out |-> <<MsgLine("The src/ directory doesn't exist")>>,
          call |-> NoCall]
    ELSE IF dry_run
    THEN LET split == shlex_split(kw["build_cmd"]) IN
         IF ~split.ok
         THEN [ret |-> RetRaise, out |-> <<>>, call |-> NoCall]
         ELSE IF split.tokens = <<Tok_make, Tok_C, Tok_src>>
         THEN [ret |-> RetNone, out |-> <<>>,
               call |-> ArgvCall(<<Tok_make, Tok_C, Tok_src>>)]
         ELSE [ret |-> RetNone, out |-> <<CmdLine(kw["build_cmd"])>>, call |-> NoCall]
    ELSE [ret |-> RetNone, out |-> <<>>, call |-> ShellCall(kw["build_cmd"])]

\* BuildCommand.invoked up to its subprocess.call(): what it returns, what it
\* prints and the child it asks for
BuildCommand_result(kw, src_isdir, dry_run) ==
    IF IsNone(kw, "build_cmd")
    THEN [ret |-> RetInt(1),
          out |-> <<MsgLine("This provider doesn't define build_cmd."),
                    MsgLine("Add it to manage.py and try again")>>,
          call |-> NoCall]
    ELSE IF ~src_isdir
    THEN [ret |-> RetInt(1),
          out |-> <<MsgLine("The src/ directory doesn't exist")>>,
          call |-> NoCall]
    ELSE IF dry_run
    THEN LET split == shlex_split(kw["build_cmd"]) IN
         IF ~split.ok
         THEN [ret |-> RetRaise, out |-> <<>>, call |-> NoCall]
         ELSE IF split.tokens = <<Tok_make, Tok_C, Tok_src>>
         THEN [ret |-> RetNone, out |-> <<>>,
               call |-> ArgvCall(<<Tok_make, Tok_C, Tok_src, Tok_n>>)]
         ELSE [ret |-> RetNone, out |-> <<CmdLine(kw["build_cmd"])>>, call |-> NoCall]
    ELSE [ret |-> RetNone, out |-> <<>>, call |-> ShellCall(kw["build_cmd"])]

\* CleanCommand.invoked up to its subprocess.call()
CleanCommand_result(kw, src_isdir, dry_run) ==
    IF IsNone(kw, "clean_cmd")
    THEN [ret |-> RetInt(1),
          out |-> <<MsgLine("This provider doesn't define clean_cmd."),
                    MsgLine("Add it to manage.py and try again")>>,
          call |-> NoCall]
    ELSE IF ~src_isdir
    THEN [ret |-> RetInt(1),
          out |-> <<MsgLine("The src/ directory doesn't exist")>>,
          call |-> NoCall]
    ELSE IF dry_run
    THEN LET split == shlex_split(kw["clean_cmd"]) IN
         IF ~split.ok
         THEN [ret |-> RetRaise, out |-> <<>>, call |-> NoCall]
         ELSE IF split.tokens = <<Tok_make, Tok_C, Tok_src, Tok_clean>>
         THEN [ret |-> RetNone, out |-> <<>>,
               call |-> ArgvCall(<<Tok_make, Tok_C, Tok_src, Tok_clean, Tok_n>>)]
         ELSE [ret |-> RetNone, out |-> <<CmdLine(kw["clean_cmd"])>>, call |-> NoCall]
    ELSE [ret |-> RetNone, out |-> <<>>, call |-> ShellCall(kw["clean_cmd"])]

\* one run of a subcommand: the handler's result, then the child (if any) acts
Invoke(name, r, dry_run) ==
    /\ invokedCmd' = name
    /\ ns_dry_run' = dry_run
    /\ fsBefore' = fs
    /\ stdout' = r.out
    /\ spawned' = IF r.call.call = "none" THEN <<>> ELSE <<r.call>>
    /\ retval' = r.ret
    /\ \E o \in ChildOutcomes(r.call, fs) :
          /\ fs' = o.fs
          /\ childExit' = o.code
    /\ UNCHANGED keywords

\* `manage.py build [-n]`
BuildCommand_invoked(dry_run) ==
    /\ Invoke("build", BuildCommand_result(keywords, src_dir \in fs, dry_run), dry_run)
    /\ UNCHANGED <<regVars, instVars>>

\* `manage.py clean [-n]`
CleanCommand_invoked(dry_run) ==
    /\ Invoke("clean", CleanCommand_result(keywords, src_dir \in fs, dry_run), dry_run)
    /\ UNCHANGED <<regVars, instVars>>

(***************************************************************************)
(* Properties of build and clean                                           *)
(***************************************************************************)
Ran        == invokedCmd \in {"build", "clean"}
LastKey    == IF invokedCmd = "build" THEN "build_cmd" ELSE "clean_cmd"
Configured == LastKey \in DOMAIN keywords
SrcPresent == src_dir \in fsBefore
SpecialTokens ==
    IF invokedCmd = "build" THEN <<Tok_make, Tok_C, Tok_src>>
                            ELSE <<Tok_make, Tok_C, Tok_src, Tok_clean>>

C2_UnsetReturnsOne ==
    (Ran /\ ~Configured)
        => (retval = RetInt(1) /\ spawned = <<>> /\ childExit = -1)

C2_Witness ==
    /\ invokedCmd = "build" /\ ~Configured /\ ns_dry_run /\ SrcPresent
    /\ retval = RetInt(1)

\* C3: without src/, build and clean return 1, spawn no child and print no
\* command, dry run or not, whatever command is configured
C3_MissingSrcReturnsOne ==
    (Ran /\ ~SrcPresent)
        => /\ retval = RetInt(1)
           /\ spawned = <<>> /\ childExit = -1
           /\ \A l \in Range(stdout) : l.line # "cmd"

C3_Witness ==
    /\ invokedCmd = "build" /\ Configured /\ ~SrcPresent /\ ~ns_dry_run
    /\ keywords["build_cmd"] = RmBuildBin
    /\ retval = RetInt(1)

\* C4: a dry run of build leaves the tree as it was and hands nothing to a
\* shell: the only child it may spawn is make with -n
C4_DryRunBuildLeavesTree ==
    (invokedCmd = "build" /\ ns_dry_run)
        => /\ fs = fsBefore
           /\ \A c \in Range(spawned) : ~c.shell /\ Tok_n \in Range(c.argv)

C4_Witness ==
    /\ invokedCmd = "build" /\ ns_dry_run /\ Configured /\ SrcPresent
    /\ keywords["build_cmd"] = MakeSrcSpaced
    /\ Len(spawned) = 1
    /\ fs = fsBefore /\ fs # {}

\* C5: a dry run with the command configured and src/ present runs make with
\* -n, printing nothing, when the command splits into the special tokens, and
\* for every other command prints the command and spawns nothing
C5_DryRunSpecialCase ==
    (Ran /\ ns_dry_run /\ Configured /\ SrcPresent)
        => LET cmd   == keywords[LastKey]
               split == shlex_split(cmd)
           IN IF split.ok /\ split.tokens = SpecialTokens
              THEN /\ spawned = <<ArgvCall(Append(SpecialTokens, Tok_n))>>
                   /\ CmdLine(cmd) \notin Range(stdout)
              ELSE /\ stdout = <<CmdLine(cmd)>>
                   /\ spawned = <<>>

KeywordSets ==
    UNION {[K -> Commands] : K \in SUBSET {"build_cmd", "clean_cmd"}}

CmdInit ==
    /\ keywords \in KeywordSets
    /\ fs \in SUBSET Paths
    /\ invokedCmd = "none"
    /\ ns_dry_run = FALSE
    /\ fsBefore = fs
    /\ stdout = <<>>
    /\ spawned = <<>>
    /\ childExit = -1
    /\ retval = RetNone
    \* nothing is registered or installed in these runs
    /\ cmd_list = <<>>
    /\ reg_prev = <<>>
    /\ reg_cls = "none"
    /\ reg_result = "none"
    /\ build_bin = [exists |-> FALSE, listing |-> <<>>]
    /\ dst = NoDst
    /\ dst_before = NoDst
    /\ dst_first = NoDst
    /\ exec_runs = 0
    /\ inst_runs = 0
    /\ inst_log = <<>>
    /\ inst_result = NotRun

NextCmd ==
    \/ \E d \in BOOLEAN : BuildCommand_invoked(d)
    \/ \E d \in BOOLEAN : CleanCommand_invoked(d)

SpecCmd == CmdInit /\ [][NextCmd]_vars

(***************************************************************************)
(* manage_py_extension and the subcommand list                             *)
(***************************************************************************)
\* the commands plainbox ships in ProviderManagerTool._SUB_COMMANDS
StockCommands == {"InfoCommand", "DevelopCommand", "InstallCommand",
                  "SourceDistributionCommand"}

\* cls.__bases__[0] of the classes manage_ext.py decorates
FirstBase ==
    [SourceDistributionCommandExt |-> "SourceDistributionCommand",
     InstallCommandExt            |-> "InstallCommand",
     BuildCommand                 |-> "ManageCommand",
     CleanCommand                 |-> "ManageCommand"]

ExtClasses == DOMAIN FirstBase

\* list.index(x): the first position of x (from 1)
ListIndex(l, x) == CHOOSE i \in 1..Len(l) : l[i] = x /\ \A j \in 1..(i - 1) : l[j] # x

\* del l[i]
ListDel(l, i) == [k \in 1..(Len(l) - 1) |-> IF k < i THEN l[k] ELSE l[k + 1]]

\* l.insert(i, x)
ListInsert(l, i, x) ==
    [k \in 1..(Len(l) + 1) |-> IF k < i THEN l[k] ELSE IF k = i THEN x ELSE l[k - 1]]

\* the replacement branch of manage_py_extension with the new class appended
\* instead of inserted at the index of the class it replaces
Override_appends(l, orig, cls) ==
    LET index == ListIndex(l, orig) IN Append(ListDel(l, index), cls)

\* the replacement branch of manage_py_extension: index, del, insert
Override(l, orig, cls) ==
    LET index == ListIndex(l, orig) IN ListInsert(ListDel(l, index), index, cls)

\* @manage_py_extension applied to cls
manage_py_extension(cls) ==
    LET orig == FirstBase[cls] IN
    /\ reg_prev' = cmd_list
    /\ reg_cls' = cls
    /\ IF orig = "ManageCommand"
       THEN /\ Len(cmd_list) < MaxList
            /\ cmd_list' = Append(cmd_list, cls)
            /\ reg_result' = "returned"
       ELSE IF orig \in Range(cmd_list)
       THEN /\ cmd_list' = Override(cmd_list, orig, cls)
            /\ reg_result' = "returned"
       ELSE /\ cmd_list' = cmd_list
            /\ reg_result' = "ValueError"
    /\ UNCHANGED <<cmdVars, instVars>>

\* the stock list, in any order and with any of the stock commands missing
StockLists ==
    {l \in UNION {[1..n -> StockCommands] : n \in 0..Cardinality(StockCommands)} :
        \A i, j \in DOMAIN l : l[i] = l[j] => i = j}

RegInit ==
    /\ cmd_list \in StockLists
    /\ reg_prev = cmd_list
    /\ reg_cls = "none"
    /\ reg_result = "none"
    \* no subcommand runs while the module is imported
    /\ keywords = <<>>
    /\ fs = {}
    /\ invokedCmd = "none"
    /\ ns_dry_run = FALSE
    /\ fsBefore = {}
    /\ stdout = <<>>
    /\ spawned = <<>>
    /\ childExit = -1
    /\ retval = RetNone
    /\ build_bin = [exists |-> FALSE, listing |-> <<>>]
    /\ dst = NoDst
    /\ dst_before = NoDst
    /\ dst_first = NoDst
    /\ exec_runs = 0
    /\ inst_runs = 0
    /\ inst_log = <<>>
    /\ inst_result = NotRun

NextReg == \E cls \in ExtClasses : manage_py_extension(cls)

SpecReg == RegInit /\ [][NextReg]_vars

\* C10: a registered class whose first base is ManageCommand lands at the end
\* of the list, which grows by one; a class whose first base is in the list
\* takes the index of that base, which leaves the list, and nothing else moves
C10_AppendOrReplaceInPlace ==
    reg_result = "returned" =>
        IF FirstBase[reg_cls] = "ManageCommand"
        THEN /\ Len(cmd_list) = Len(reg_prev) + 1
             /\ cmd_list[Len(cmd_list)] = reg_cls
             /\ \A k \in 1..Len(reg_prev) : cmd_list[k] = reg_prev[k]
        ELSE \E i \in 1..Len(reg_prev) :
                /\ reg_prev[i] = FirstBase[reg_cls]
                /\ Len(cmd_list) = Len(reg_prev)
                /\ cmd_list[i] = reg_cls
                /\ FirstBase[reg_cls] \notin Range(cmd_list)
                /\ \A k \in 1..Len(reg_prev) : k # i => cmd_list[k] = reg_prev[k]

C10_Witness ==
    /\ reg_result = "returned"
    /\ reg_cls = "InstallCommandExt"
    /\ Len(reg_prev) >= 3
    /\ reg_prev[2] = "InstallCommand"
    /\ reg_prev[Len(reg_prev)] = "BuildCommand"
    /\ cmd_list[2] = "InstallCommandExt"

(***************************************************************************)
(* InstallCommandExt                                                       *)
(***************************************************************************)
Name_hello    == <<"h","e","l","l","o">>
Name_tool_exe == <<"t","o","o","l",".","e","x","e">>
Name_notexe   == <<"n","o","t","e","x","e">>
DotExe        == <<".","e","x","e">>

FileNames == {Name_hello, Name_tool_exe, Name_notexe}

\* the contents of the files of build/bin, one block each; a file found in the
\* destination beforehand holds OldData
SrcData(name) ==
    CASE name = Name_hello    -> <<"hello-bytes">>
      [] name = Name_tool_exe -> <<"tool-bytes">>
      [] OTHER                -> <<"notexe-bytes">>
OldData == <<"old-bytes">>

\* str.endswith
EndsWith(str, suffix) ==
    /\ Len(str) >= Len(suffix)
    /\ SubSeq(str, Len(str) - Len(suffix) + 1, Len(str)) = suffix

Ev(what, name) == [ev |-> what, name |-> name]

DstAbsent(c)   == [kind |-> "absent", creatable |-> c, data |-> <<>>, mode_w |-> TRUE,
                   files |-> <<>>]
DstFile(d, w)  == [kind |-> "file", creatable |-> FALSE, data |-> d, mode_w |-> w,
                   files |-> <<>>]
DstDir(f)      == [kind |-> "dir", creatable |-> FALSE, data |-> <<>>, mode_w |-> TRUE,
                   files |-> f]
Node(k, d, w)  == [kind |-> k, data |-> d, mode_w |-> w]

\* the test of line 204 with `and` for `or`
Selected_and(e) == e.x_ok /\ EndsWith(e.name, DotExe)

\* os.access(src_file, os.X_OK) or filename.endswith('.exe')
Selected(e) == e.x_ok \/ EndsWith(e.name, DotExe)

\* os.makedirs(dst_dir, exist_ok=True): [ok, dst]; it fails when dst_dir is a
\* file and when it cannot be created
Makedirs(d) ==
    CASE d.kind = "dir"                      -> [ok |-> TRUE, dst |-> d]
      [] d.kind = "absent" /\ d.creatable    -> [ok |-> TRUE, dst |-> DstDir(<<>>)]
      [] OTHER                               -> [ok |-> FALSE, dst |-> d]

\* shutil.copy writing in append mode
Copy_appends(e, d) ==
    IF e.kind = "dir" THEN [ok |-> FALSE, dst |-> d]
    ELSE CASE d.kind = "dir" ->
                IF e.name \in DOMAIN d.files
                THEN IF d.files[e.name].kind = "dir" \/ ~d.files[e.name].mode_w
                     THEN [ok |-> FALSE, dst |-> d]
                     ELSE [ok |-> TRUE,
                           dst |-> DstDir([d.files EXCEPT ![e.name] =
                                     Node("file", @.data \o SrcData(e.name), e.mode_w)])]
                ELSE [ok |-> TRUE,
                      dst |-> DstDir([n \in DOMAIN d.files \cup {e.name} |->
                                IF n = e.name THEN Node("file", SrcData(n), e.mode_w)
                                              ELSE d.files[n]])]
           [] d.kind = "file" ->
                IF d.mode_w
                THEN [ok |-> TRUE, dst |-> DstFile(d.data \o SrcData(e.name), e.mode_w)]
                ELSE [ok |-> FALSE, dst |-> d]
           [] OTHER -> [ok |-> FALSE, dst |-> d]

\* shutil.copy(src_file, dst_dir): [ok, dst]. Into a directory it writes
\* dst_dir/<name>, over a file it writes dst_dir itself; contents and
\* permission bits are those of the source. It fails on a source that is a
\* directory, on a target that is a directory or is not writable, and on a
\* destination that does not exist (makedirs has just failed to create it)
Copy(e, d) ==
    IF e.kind = "dir" THEN [ok |-> FALSE, dst |-> d]
    ELSE CASE d.kind = "dir" ->
                IF e.name \in DOMAIN d.files
                THEN IF d.files[e.name].kind = "dir" \/ ~d.files[e.name].mode_w
                     THEN [ok |-> FALSE, dst |-> d]
                     ELSE [ok |-> TRUE,
                           dst |-> DstDir([d.files EXCEPT ![e.name] =
                                     Node("file", SrcData(e.name), e.mode_w)])]
                ELSE [ok |-> TRUE,
                      dst |-> DstDir([n \in DOMAIN d.files \cup {e.name} |->
                                IF n = e.name THEN Node("file", SrcData(n), e.mode_w)
                                              ELSE d.files[n]])]
           [] d.kind = "file" ->
                IF d.mode_w
                THEN [ok |-> TRUE, dst |-> DstFile(SrcData(e.name), e.mode_w)]
                ELSE [ok |-> FALSE, dst |-> d]
           [] OTHER -> [ok |-> FALSE, dst |-> d]

\* the loop body with the exception of shutil.copy caught as that of makedirs is
InstallOne_swallowsCopy(e, d) ==
    IF ~Selected(e)
    THEN [dst |-> d, log |-> <<>>, raised |-> FALSE]
    ELSE LET mk == Makedirs(d)
             cp == Copy(e, mk.dst)
         IN [dst |-> cp.dst,
             log |-> <<Ev(IF mk.ok THEN "makedirs" ELSE "makedirs_failed", e.name),
                       Ev(IF cp.ok THEN "copied" ELSE "copy_failed", e.name)>>,
             raised |-> FALSE]

\* the body of the loop of _install_src_executables for one entry of build/bin:
\* [dst, log, raised]
InstallOne(e, d) ==
    IF ~Selected(e)
    THEN [dst |-> d, log |-> <<>>, raised |-> FALSE]
    ELSE LET mk == Makedirs(d)
             cp == Copy(e, mk.dst)
         IN [dst |-> cp.dst,
             log |-> <<Ev(IF mk.ok THEN "makedirs" ELSE "makedirs_failed", e.name),
                       Ev(IF cp.ok THEN "copied" ELSE "copy_failed", e.name)>>,
             raised |-> ~cp.ok]

\* for filename in os.listdir(src_dir): ... from entry i on
RECURSIVE InstallLoop(_, _, _, _)
InstallLoop(listing, i, d, log) ==
    IF i > Len(listing)
    THEN [dst |-> d, log |-> log, raised |-> FALSE]
    ELSE LET one == InstallOne(listing[i], d) IN
         IF one.raised
         THEN [dst |-> one.dst, log |-> log \o one.log, raised |-> TRUE]
         ELSE InstallLoop(listing, i + 1, one.dst, log \o one.log)

\* InstallCommandExt._install_src_executables: [dst, log, raised]
install_src_executables(bb, d) ==
    IF ~bb.exists
    THEN [dst |-> d, log |-> <<Ev("listdir_failed", <<>>)>>, raised |-> TRUE]
    ELSE InstallLoop(bb.listing, 1, d, <<Ev("listdir", <<>>)>>)

\* InstallCommandExt.invoked catching what _install_src_executables raises
InstallCommandExt_result_bestEffort(super_ok, bb, d) ==
    IF ~super_ok
    THEN [ret |-> RetRaise, dst |-> d, log |-> <<Ev("super.invoked", <<>>)>>, ran |-> FALSE]
    ELSE LET run == install_src_executables(bb, d) IN
         [ret |-> RetNone,
          dst |-> run.dst,
          log |-> <<Ev("super.invoked", <<>>)>> \o run.log,
          ran |-> TRUE]

\* InstallCommandExt.invoked: super().invoked(ns), then
\* self._install_src_executables(ns); nothing is caught and nothing is returned
InstallCommandExt_result(super_ok, bb, d) ==
    IF ~super_ok
    THEN [ret |-> RetRaise, dst |-> d, log |-> <<Ev("super.invoked", <<>>)>>, ran |-> FALSE]
    ELSE LET run == install_src_executables(bb, d) IN
         [ret |-> IF run.raised THEN RetRaise ELSE RetNone,
          dst |-> run.dst,
          log |-> <<Ev("super.invoked", <<>>)>> \o run.log,
          ran |-> TRUE]

\* `manage.py install`: the stock installation returns or raises
InstallCommandExt_invoked(super_ok) ==
    LET r == InstallCommandExt_result(super_ok, build_bin, dst) IN
    /\ inst_runs < MaxRuns
    /\ inst_runs' = inst_runs + 1
    /\ dst_before' = dst
    /\ dst' = r.dst
    /\ inst_log' = r.log
    /\ inst_result' = r.ret
    /\ exec_runs' = IF r.ran THEN exec_runs + 1 ELSE exec_runs
    /\ dst_first' = IF r.ran /\ exec_runs = 0 THEN r.dst ELSE dst_first
    /\ UNCHANGED <<build_bin, cmdVars, regVars>>

\* the entries build/bin may hold: files with or without the execute and
\* write permission, and subdirectories (searchable, so X_OK)
Entries ==
    {[name |-> n, kind |-> "file", x_ok |-> x, mode_w |-> w] :
        n \in FileNames, x \in BOOLEAN, w \in BOOLEAN}
    \cup {[name |-> n, kind |-> "dir", x_ok |-> TRUE, mode_w |-> TRUE] : n \in FileNames}

\* os.listdir() returns the entries in arbitrary order, each name once
Listings ==
    {l \in UNION {[1..n -> Entries] : n \in 0..Cardinality(FileNames)} :
        \A i, j \in DOMAIN l : l[i].name = l[j].name => i = j}

\* what a name of the destination directory may be beforehand
OldNodes == {Node("file", OldData, TRUE), Node("file", OldData, FALSE),
             Node("dir", <<>>, TRUE)}

Destinations ==
    {DstAbsent(c) : c \in BOOLEAN}
    \cup {DstFile(OldData, w) : w \in BOOLEAN}
    \cup {DstDir(f) : f \in UNION {[N -> OldNodes] : N \in SUBSET FileNames}}

InstInit ==
    /\ build_bin \in {[exists |-> FALSE, listing |-> <<>>]}
                     \cup {[exists |-> TRUE, listing |-> l] : l \in Listings}
    /\ dst \in Destinations
    /\ dst_before = dst
    /\ dst_first = dst
    /\ exec_runs = 0
    /\ inst_runs = 0
    /\ inst_log = <<>>
    /\ inst_result = NotRun
    \* build and clean do not run, the subcommand list is not looked at
    /\ keywords = <<>>
    /\ fs = {}
    /\ invokedCmd = "none"
    /\ ns_dry_run = FALSE
    /\ fsBefore = {}
    /\ stdout = <<>>
    /\ spawned = <<>>
    /\ childExit = -1
    /\ retval = RetNone
    /\ cmd_list = <<>>
    /\ reg_prev = <<>>
    /\ reg_cls = "none"
    /\ reg_result = "none"

NextInst == \E super_ok \in BOOLEAN : InstallCommandExt_invoked(super_ok)

SpecInstall == InstInit /\ [][NextInst]_vars

(***************************************************************************)
(* Properties of install                                                   *)
(***************************************************************************)
LogAt(what)  == {k \in DOMAIN inst_log : inst_log[k].ev = what}
CopiedNames  == {inst_log[k].name : k \in LogAt("copied")}
ExecRan      == LogAt("listdir") \cup LogAt("listdir_failed") # {}
ExecFailed   == LogAt("listdir_failed") \cup LogAt("copy_failed") # {}
Pos(name)    == CHOOSE i \in DOMAIN build_bin.listing : build_bin.listing[i].name = name
EntryOf(name) == build_bin.listing[Pos(name)]
\* the names of build/bin that are executable or end in .exe
Installable  ==
    {e.name : e \in {e \in Range(build_bin.listing) : e.x_ok \/ EndsWith(e.name, DotExe)}}

\* C6: _install_src_executables copies the entries of build/bin that are
\* executable or named *.exe, and no others: nothing else is ever copied or
\* changed in the destination, and a run that returns has copied every one
C6_CopiesExactlyInstallable ==
    ExecRan =>
        /\ CopiedNames \subseteq Installable
        /\ (dst.kind = "dir" /\ dst_before.kind # "file") =>
              \A n \in DOMAIN dst.files :
                 (n \notin DOMAIN dst_before.files \/ dst.files[n] # dst_before.files[n])
                     => n \in Installable
        /\ inst_result = RetNone =>
              /\ CopiedNames = Installable
              /\ Cardinality(LogAt("copied")) = Cardinality(Installable)
              /\ dst.kind = "dir" =>
                    \A n \in Installable :
                       /\ n \in DOMAIN dst.files
                       /\ dst.files[n] = Node("file", SrcData(n), EntryOf(n).mode_w)

\* build/bin holds an executable file, a plain file and tool.exe without the
\* execute permission: two files are copied
C6_Witness ==
    /\ inst_result = RetNone
    /\ Len(build_bin.listing) = 3
    /\ \A e \in Range(build_bin.listing) :
          e.kind = "file" /\ (e.x_ok <=> e.name = Name_hello)
    /\ dst_before = DstDir(<<>>)
    /\ dst.kind = "dir"
    /\ DOMAIN dst.files = {Name_hello, Name_tool_exe}
    /\ Cardinality(LogAt("copied")) = 2

\* C7: a second run of _install_src_executables leaves the destination as the
\* first run left it: the same names, contents and permission bits. A run adds
\* no name but those it copies, and a copy is never refused over a writable
\* file of the same name
C7_Idempotent ==
    /\ exec_runs >= 2 => dst = dst_first
    /\ ExecRan =>
          /\ (dst.kind = "dir" /\ dst_before.kind # "file") =>
                DOMAIN dst.files \subseteq (DOMAIN dst_before.files \cup CopiedNames)
          /\ \A k \in LogAt("copy_failed") :
                LET n == inst_log[k].name IN
                ~ /\ EntryOf(n).kind = "file"
                  /\ dst.kind = "dir"
                  /\ n \in DOMAIN dst.files
                  /\ dst.files[n].kind = "file"
                  /\ dst.files[n].mode_w

C7_Witness ==
    /\ exec_runs = 2
    /\ inst_result = RetNone
    /\ dst.kind = "dir"
    /\ Cardinality(CopiedNames) >= 2
    /\ CopiedNames \subseteq DOMAIN dst_before.files
    /\ dst_first # DstDir(<<>>)

\* C8 as stated: install runs the stock installation first and then
\* _install_src_executables, and ends with the same exit status whether that
\* step fails or succeeds
C8_FailureKeepsExitCode ==
    inst_runs > 0 =>
        /\ inst_log[1].ev = "super.invoked"
        /\ ExecFailed => ExitStatus(inst_result) = ExitStatus(RetNone)

\* C8, amended: install runs the stock installation first and then
\* _install_src_executables; a failure of that step propagates out of install
\* as an exception, and only a step that succeeds lets install return (None)
C8_FailurePropagates ==
    inst_runs > 0 =>
        /\ inst_log[1].ev = "super.invoked"
        /\ \A k \in DOMAIN inst_log : k > 1 => inst_log[k].ev # "super.invoked"
        /\ ExecFailed => inst_result = RetRaise
        /\ (ExecRan /\ ~ExecFailed) => inst_result = RetNone

C8_Witness ==
    /\ inst_runs > 0
    /\ LogAt("copy_failed") # {}
    /\ LogAt("copied") # {}
    /\ inst_result = RetRaise
    /\ ExitStatus(inst_result) # ExitStatus(RetNone)

\* C9: a makedirs that fails is followed by the copy all the same; a copy that
\* fails ends the run with the exception: nothing listed after the failing
\* entry is copied, and what was copied before it is still in the destination
C9_MkdirSwallowedCopyAborts ==
    ExecRan =>
        /\ \A k \in LogAt("makedirs_failed") :
              /\ k < Len(inst_log)
              /\ inst_log[k + 1].ev \in {"copied", "copy_failed"}
              /\ inst_log[k + 1].name = inst_log[k].name
        /\ \A k \in LogAt("copy_failed") :
              /\ k = Len(inst_log)
              /\ inst_result = RetRaise
              /\ \A n \in CopiedNames : Pos(n) < Pos(inst_log[k].name)
              /\ dst.kind = "dir" =>
                    \A n \in CopiedNames :
                       /\ n \in DOMAIN dst.files
                       /\ dst.files[n] = Node("file", SrcData(n), EntryOf(n).mode_w)
              /\ (dst.kind = "file" /\ inst_log[k - 2].ev = "copied") =>
                    dst.data = SrcData(inst_log[k - 2].name)

C9_Witness ==
    /\ \E k \in LogAt("makedirs_failed") : inst_log[k + 1].ev = "copied"
    /\ \E k \in LogAt("copy_failed") :
          /\ Pos(inst_log[k].name) < Len(build_bin.listing)
          /\ build_bin.listing[Len(build_bin.listing)].name \in Installable \ CopiedNames
    /\ inst_result = RetRaise

====
